---- MODULE Spec2Model ----
(***************************************************************************)
(* The File Bridge of tangent-notebook (src/frontend/src-tauri/src/lib.rs):*)
(* five request handlers over the filesystem.                              *)
(*                                                                         *)
(* Granularity.  A handler is one step per blocking filesystem access that *)
(* another request can observe.  add_recent_file is three steps: resolve   *)
(* the application data directory (and create it), load the store and      *)
(* compute the new list, write the store.  The other four handlers touch   *)
(* shared state at one point only and are one step each.                   *)
(*                                                                         *)
(* Text.  A file holding text is modelled by the document the text         *)
(* denotes: <<"raw", s>> for text that is not JSON, <<"arr", elems>> and   *)
(* <<"obj", members>> for JSON arrays and objects, <<"str", s>> and        *)
(* <<"num", n>> for JSON strings and numbers.                              *)
(***************************************************************************)
EXTENDS Integers, Sequences, FiniteSets, TLC

VARIABLES
    appDataDir,   \* app_data_dir(): "unresolved" | "missing" | "present"
    store,        \* the file <app data dir>/recent_files.json
    docsDir,      \* document_dir(): "unresolved" | "resolved" | "nonutf8"
    nbDir,        \* TRUE iff <documents>/Tangent Notebooks exists
    files,        \* notebook path -> file
    pc,           \* per request slot: "idle" | "add_load" | "add_write"
    req,          \* per slot: the request in progress, or the last one completed
    ret,          \* per slot: the result of the last completed request
    recent_files, \* per slot: the local Vec<RecentFile> of add_recent_file
    nfresh,       \* highest pool index handed to add_recent_file so far
    faults,       \* filesystem failures so far (create_dir_all, fs::write)
    races,        \* add_recent_file calls begun while another one was running
    record,       \* the specification keeps the history variables below
    ncalls,       \* history: number of requests begun
    prevReq,      \* history, per slot: the request completed before req
    prevRet,      \* history, per slot: its result
    pre,          \* history, per slot: the filesystem when the slot's request began
    overlap,      \* history, per slot: another add ran during the slot's add
    written,      \* history, per notebook path: the text last written, if it was
    added,        \* history: the entries of the successful add_recent_file calls
    clean         \* history: store began absent, every add so far succeeded alone

vars == <<appDataDir, store, docsDir, nbDir, files, pc, req, ret, recent_files,
          nfresh, faults, races, record, ncalls, prevReq, prevRet, pre, overlap,
          written, added, clean>>

-----------------------------------------------------------------------------
(* Bounds of the model. *)

NumPaths == 11       \* distinct paths Spec hands to add_recent_file
MaxUpsets == 1       \* filesystem failures and overlapping calls per behaviour
MaxSeqCalls == 3     \* requests per behaviour of SpecSeq
MaxFillCalls == 15   \* requests per behaviour of SpecFill
MaxRaceCalls == 2    \* requests per behaviour of SpecRace

(* Program constant: recent_files.truncate(10). *)
MaxRecent == 10

(* Request slots: requests that may be in progress at the same time. *)
Procs == {1, 2}

Min(a, b) == IF a < b THEN a ELSE b
Max(a, b) == IF a > b THEN a ELSE b

(* The i-th path of the pool; paths are opaque and compared by equality. *)
PathOf(i) ==
    IF i = 1 THEN "/a/x.nb"
    ELSE IF i = 2 THEN "/a/y.nb"
    ELSE "/a/p" \o ToString(i) \o ".nb"

NotebookPaths == {"/a/x.nb"}
Contents == {<<"raw", "c1">>, <<"raw", "c2">>}

-----------------------------------------------------------------------------
(* struct RecentFile *)
RecentFile(path, name, timestamp) ==
    [path |-> path, name |-> name, timestamp |-> timestamp]

(* Files. *)
NoDoc == <<"none", <<>>>>
Absent == [kind |-> "absent", body |-> NoDoc]
Unreadable == [kind |-> "bytes", body |-> NoDoc]   \* exists, read_to_string fails
Text(doc) == [kind |-> "text", body |-> doc]

(* Results: Result<T, String>. *)
Ok(val) == [tag |-> "ok", val |-> val]
Err(msg) == [tag |-> "err", val |-> <<"msg", msg>>]
Unit == <<"unit", <<>>>>

NoReq == [op |-> "none", arg |-> <<>>]
NoRet == [tag |-> "none", val |-> Unit]

-----------------------------------------------------------------------------
(* Mutant of the serialization: the members path and name are exchanged. *)
EntryToJsonSwapped(f) ==
    <<"obj", << <<"path", <<"str", f.name>>>>,
                <<"name", <<"str", f.path>>>>,
                <<"timestamp", <<"num", f.timestamp>>>> >> >>

(* serde_json::to_string(&recent_files): one JSON object per entry, members *)
(* in field order.                                                          *)
EntryToJson(f) ==
    <<"obj", << <<"path", <<"str", f.path>>>>,
                <<"name", <<"str", f.name>>>>,
                <<"timestamp", <<"num", f.timestamp>>>> >> >>

to_string(v) == <<"arr", [i \in 1..Len(v) |-> EntryToJson(v[i])]>>

(* serde_json::from_str::<Vec<RecentFile>>: the text must be a JSON array of *)
(* objects, each with exactly one member for every field of RecentFile, of   *)
(* the field's type; members with other keys are ignored.  A timestamp is a  *)
(* u64: a negative number does not parse (the model's timestamps stay far    *)
(* below 2^64, no arithmetic is done on them).                               *)
MemberAt(j, key) == {i \in 1..Len(j[2]) : j[2][i][1] = key}

HasField(j, key, type) ==
    /\ Cardinality(MemberAt(j, key)) = 1
    /\ \A i \in MemberAt(j, key) :
          /\ j[2][i][2][1] = type
          /\ type = "num" => j[2][i][2][2] >= 0

Field(j, key) == j[2][CHOOSE i \in MemberAt(j, key) : TRUE][2][2]

EntryParses(j) ==
    /\ j[1] = "obj"
    /\ HasField(j, "path", "str")
    /\ HasField(j, "name", "str")
    /\ HasField(j, "timestamp", "num")

EntryFromJson(j) ==
    RecentFile(Field(j, "path"), Field(j, "name"), Field(j, "timestamp"))

Parses(doc) ==
    /\ doc[1] = "arr"
    /\ \A i \in 1..Len(doc[2]) : EntryParses(doc[2][i])

from_str(doc) ==
    IF Parses(doc)
    THEN Ok(<<"list", [i \in 1..Len(doc[2]) |-> EntryFromJson(doc[2][i])]>>)
    ELSE Err("Failed to parse recent files")

(* Mutants of the three list operations: retain that keeps every entry,    *)
(* retain with the test inverted, insert at the end, truncate that keeps   *)
(* everything, truncate that keeps the last n.                             *)
RetainAll(v, path) == v
RetainSamePath(v, path) == SelectSeq(v, LAMBDA f : f.path = path)
InsertLast(v, e) == v \o <<e>>
TruncateNever(v, n) == v
TruncateKeepsLast(v, n) ==
    IF Len(v) > n THEN SubSeq(v, Len(v) - n + 1, Len(v)) ELSE v

(* Vec::retain(|f| f.path != path), Vec::insert(0, e), Vec::truncate(n). *)
Retain(v, path) == SelectSeq(v, LAMBDA f : f.path # path)
Insert0(v, e) == <<e>> \o v
Truncate(v, n) == IF Len(v) > n THEN SubSeq(v, 1, n) ELSE v

(* fs::read_to_string *)
read_to_string(file, msg) ==
    IF file.kind = "text" THEN Ok(file.body) ELSE Err(msg)

(* fs::write creates or truncates the file, then writes the text.  A failed *)
(* write leaves the file as it was (it could not be opened) or empty (it    *)
(* was truncated and the text did not reach it).                            *)
FailedWrite(file) == {file, Text(<<"raw", "">>)}

(* Whether a filesystem call that can fail does: it may, within the budget. *)
Fails == {FALSE} \cup (IF faults + races < MaxUpsets THEN {TRUE} ELSE {})

Fault(failed) == faults' = IF failed THEN faults + 1 ELSE faults

(* Mutants of the load: a text that does not parse is an error; a failed   *)
(* read is the empty list.                                                 *)
LoadRecentStrict(file) ==
    IF file.kind = "absent" THEN Ok(<<"list", <<>>>>)
    ELSE LET content == read_to_string(file, "Failed to read recent files")
         IN IF content.tag = "err" THEN content ELSE from_str(content.val)

LoadRecentLenient(file) ==
    IF file.kind = "text" /\ Parses(file.body) THEN from_str(file.body)
    ELSE Ok(<<"list", <<>>>>)

(* The list add_recent_file loads (lines 56-62): a missing store and a text *)
(* that does not parse are the empty list; a failed read is an error.       *)
LoadRecent(file) ==
    IF file.kind = "absent" THEN Ok(<<"list", <<>>>>)
    ELSE LET content == read_to_string(file, "Failed to read recent files")
         IN IF content.tag = "err" THEN content
            ELSE LET parsed == from_str(content.val)
                 IN IF parsed.tag = "ok" THEN parsed ELSE Ok(<<"list", <<>>>>)

(* Lines 64-75. *)
Updated(v, f) == Truncate(Insert0(Retain(v, f.path), f), MaxRecent)

-----------------------------------------------------------------------------
(* Bookkeeping shared by the handlers. *)

Adding(q) == pc[q] # "idle"

Snapshot == [store |-> store, nbDir |-> nbDir, files |-> files]
NoSnapshot ==
    [store |-> Absent, nbDir |-> FALSE, files |-> [path \in NotebookPaths |-> Absent]]

(* Slot p begins request r; res is its result, NoRet while it is pending.   *)
(* Without the history a completed request leaves no trace in its slot.     *)
Begins(p, r, res) ==
    /\ req' = [req EXCEPT ![p] = IF record \/ res = NoRet THEN r ELSE NoReq]
    /\ ret' = [ret EXCEPT ![p] = IF record THEN res ELSE NoRet]
    /\ prevReq' = [prevReq EXCEPT ![p] = IF record THEN req[p] ELSE NoReq]
    /\ prevRet' = [prevRet EXCEPT ![p] = IF record THEN ret[p] ELSE NoRet]
    /\ pre' = [pre EXCEPT ![p] = IF record THEN Snapshot ELSE NoSnapshot]
    /\ ncalls' = IF record THEN ncalls + 1 ELSE ncalls

(* Slot p completes its pending request with result res. *)
Completes(p, res) ==
    /\ req' = [req EXCEPT ![p] = IF record THEN req[p] ELSE NoReq]
    /\ ret' = [ret EXCEPT ![p] = IF record THEN res ELSE NoRet]
    /\ pc' = [pc EXCEPT ![p] = "idle"]
    /\ UNCHANGED <<prevReq, prevRet, pre, ncalls>>

(* The history is kept while clean holds and dropped when it stops holding. *)
Dirty == /\ clean' = FALSE
         /\ added' = <<>>

-----------------------------------------------------------------------------
(* read_notebook_file, lines 13-17. *)
read_notebook_file(p, path) ==
    /\ pc[p] = "idle"
    /\ Begins(p, [op |-> "read_notebook_file", arg |-> <<path>>],
              read_to_string(files[path], "Failed to read file"))
    /\ UNCHANGED <<appDataDir, store, docsDir, nbDir, files, pc, recent_files,
                   nfresh, faults, races, record, overlap, written, added, clean>>

(* Mutant of write_notebook_file: the file is created or truncated and the *)
(* text is not written.                                                    *)
write_notebook_file_empty(p, path, content) ==
    /\ pc[p] = "idle"
    /\ files' = [files EXCEPT ![path] = Text(<<"raw", "">>)]
    /\ Begins(p, [op |-> "write_notebook_file", arg |-> <<path, content>>], Ok(Unit))
    /\ written' = [written EXCEPT ![path] = IF record THEN content ELSE NoDoc]
    /\ UNCHANGED <<appDataDir, store, docsDir, nbDir, pc, recent_files,
                   nfresh, faults, races, record, overlap, added, clean>>

(* write_notebook_file, lines 19-23. *)
write_notebook_file(p, path, content) ==
    /\ pc[p] = "idle"
    /\ \E failed \in Fails :
          /\ Fault(failed)
          /\ IF failed
             THEN /\ \E left \in FailedWrite(files[path]) :
                        files' = [files EXCEPT ![path] = left]
                  /\ Begins(p, [op |-> "write_notebook_file",
                                arg |-> <<path, content>>],
                            Err("Failed to write file"))
                  /\ written' = [written EXCEPT ![path] = NoDoc]
             ELSE /\ files' = [files EXCEPT ![path] = Text(content)]
                  /\ Begins(p, [op |-> "write_notebook_file",
                                arg |-> <<path, content>>],
                            Ok(Unit))
                  /\ written' = [written EXCEPT ![path] =
                                    IF record THEN content ELSE NoDoc]
    /\ UNCHANGED <<appDataDir, store, docsDir, nbDir, pc, recent_files,
                   nfresh, races, record, overlap, added, clean>>

(* Mutant of get_recent_files: the store is read without the test that it  *)
(* exists.                                                                 *)
RecentFilesUnchecked ==
    IF appDataDir = "unresolved" THEN Err("Failed to get app data directory")
    ELSE LET content == read_to_string(store, "Failed to read recent files")
         IN IF content.tag = "err" THEN content ELSE from_str(content.val)

(* get_recent_files, lines 25-42. *)
RecentFilesResult ==
    IF appDataDir = "unresolved" THEN Err("Failed to get app data directory")
    ELSE IF store.kind = "absent" THEN Ok(<<"list", <<>>>>)
    ELSE LET content == read_to_string(store, "Failed to read recent files")
         IN IF content.tag = "err" THEN content ELSE from_str(content.val)

get_recent_files(p) ==
    /\ pc[p] = "idle"
    /\ Begins(p, [op |-> "get_recent_files", arg |-> <<>>], RecentFilesResult)
    /\ UNCHANGED <<appDataDir, store, docsDir, nbDir, files, pc, recent_files,
                   nfresh, faults, races, record, overlap, written, added, clean>>

(* get_default_save_directory, lines 84-100. *)
NotebooksDir == "<documents>/Tangent Notebooks"

(* Mutant of get_default_save_directory: the directory is created without  *)
(* the test that it is missing, by a call that fails when it exists.       *)
get_default_save_directory_unchecked(p) ==
    /\ pc[p] = "idle"
    /\ LET r == [op |-> "get_default_save_directory", arg |-> <<>>]
       IN IF docsDir = "unresolved"
          THEN Begins(p, r, Err("Failed to get documents directory"))
          ELSE IF nbDir
          THEN Begins(p, r, Err("Failed to create notebooks directory"))
          ELSE Begins(p, r, IF docsDir = "nonutf8"
                            THEN Err("Failed to convert path to string")
                            ELSE Ok(<<"str", NotebooksDir>>))
    /\ nbDir' = (nbDir \/ docsDir # "unresolved")
    /\ UNCHANGED <<appDataDir, store, docsDir, files, pc, recent_files,
                   nfresh, faults, races, record, overlap, written, added, clean>>

get_default_save_directory(p) ==
    /\ pc[p] = "idle"
    /\ \E failed \in Fails :
          LET r == [op |-> "get_default_save_directory", arg |-> <<>>]
          IN IF docsDir = "unresolved"
             THEN /\ ~failed
                  /\ Begins(p, r, Err("Failed to get documents directory"))
                  /\ UNCHANGED <<nbDir, faults>>
             ELSE IF nbDir
             THEN /\ ~failed
                  /\ Begins(p, r, IF docsDir = "nonutf8"
                                  THEN Err("Failed to convert path to string")
                                  ELSE Ok(<<"str", NotebooksDir>>))
                  /\ UNCHANGED <<nbDir, faults>>
             ELSE IF failed
             THEN /\ Begins(p, r, Err("Failed to create notebooks directory"))
                  /\ Fault(failed)
                  /\ UNCHANGED nbDir
             ELSE /\ nbDir' = TRUE
                  /\ Begins(p, r, IF docsDir = "nonutf8"
                                  THEN Err("Failed to convert path to string")
                                  ELSE Ok(<<"str", NotebooksDir>>))
                  /\ UNCHANGED faults
    /\ UNCHANGED <<appDataDir, store, docsDir, files, pc, recent_files,
                   nfresh, races, record, overlap, written, added, clean>>

(* add_recent_file, lines 44-52: resolve the application data directory    *)
(* and create it when it is missing.                                        *)
add_recent_file_resolve(p, i, name, timestamp) ==
    /\ pc[p] = "idle"
    /\ nfresh' = Max(nfresh, i)
    /\ races' = IF \E o \in Procs \ {p} : Adding(o) THEN races + 1 ELSE races
    /\ overlap' = [q \in Procs |->
                     IF ~record THEN FALSE
                     ELSE IF q = p THEN \E o \in Procs \ {p} : Adding(o)
                     ELSE Adding(q) \/ overlap[q]]
    /\ \E failed \in Fails :
          LET r == [op |-> "add_recent_file", arg |-> <<PathOf(i), name, timestamp>>]
          IN IF appDataDir = "unresolved"
             THEN /\ ~failed
                  /\ Begins(p, r, Err("Failed to get app data directory"))
                  /\ Dirty
                  /\ UNCHANGED <<appDataDir, pc, faults>>
             ELSE IF appDataDir = "present"
             THEN /\ ~failed
                  /\ Begins(p, r, NoRet)
                  /\ pc' = [pc EXCEPT ![p] = "add_load"]
                  /\ IF \E o \in Procs \ {p} : Adding(o)
                     THEN Dirty
                     ELSE UNCHANGED <<added, clean>>
                  /\ UNCHANGED <<appDataDir, faults>>
             ELSE IF failed
             THEN /\ Begins(p, r, Err("Failed to create app directory"))
                  /\ Fault(failed)
                  /\ Dirty
                  /\ UNCHANGED <<appDataDir, pc>>
             ELSE /\ Begins(p, r, NoRet)
                  /\ appDataDir' = "present"
                  /\ pc' = [pc EXCEPT ![p] = "add_load"]
                  /\ IF \E o \in Procs \ {p} : Adding(o)
                     THEN Dirty
                     ELSE UNCHANGED <<added, clean>>
                  /\ UNCHANGED faults
    /\ UNCHANGED <<store, docsDir, nbDir, files, recent_files, record, written>>

(* add_recent_file, lines 54-75: load the list, drop the entry of the same  *)
(* path, insert the new entry in front, keep the first MaxRecent.           *)
add_recent_file_load(p) ==
    /\ pc[p] = "add_load"
    /\ LET loaded == LoadRecent(store)
           f == RecentFile(req[p].arg[1], req[p].arg[2], req[p].arg[3])
       IN IF loaded.tag = "err"
          THEN /\ Completes(p, loaded)
               /\ Dirty
               /\ UNCHANGED recent_files
          ELSE /\ recent_files' = [recent_files EXCEPT ![p] = Updated(loaded.val[2], f)]
               /\ pc' = [pc EXCEPT ![p] = "add_write"]
               /\ UNCHANGED <<req, ret, prevReq, prevRet, pre, ncalls, added, clean>>
    /\ UNCHANGED <<appDataDir, store, docsDir, nbDir, files, nfresh, faults, races,
                   record, overlap, written>>

(* add_recent_file, lines 77-81: serialize the list and write the store.    *)
(* Serializing a Vec<RecentFile> cannot fail, so only the write can.        *)
add_recent_file_write(p) ==
    /\ pc[p] = "add_write"
    /\ \E failed \in Fails :
          /\ Fault(failed)
          /\ IF failed
             THEN /\ \E left \in FailedWrite(store) : store' = left
                  /\ Completes(p, Err("Failed to write recent files"))
                  /\ Dirty
             ELSE /\ store' = Text(to_string(recent_files[p]))
                  /\ Completes(p, Ok(Unit))
                  /\ added' = IF clean
                              THEN Append(added, RecentFile(req[p].arg[1],
                                                            req[p].arg[2],
                                                            req[p].arg[3]))
                              ELSE added
                  /\ UNCHANGED clean
    /\ recent_files' = [recent_files EXCEPT ![p] = IF record THEN @ ELSE <<>>]
    /\ UNCHANGED <<appDataDir, docsDir, nbDir, files, nfresh, races, record,
                   overlap, written>>

-----------------------------------------------------------------------------
(* The bridge after start-up on a given environment. *)
Started(env) ==
    /\ appDataDir = env.appDataDir
    /\ store = env.store
    /\ docsDir = env.docsDir
    /\ nbDir = env.nbDir
    /\ files = [path \in NotebookPaths |-> env.notebook]
    /\ pc = [p \in Procs |-> "idle"]
    /\ req = [p \in Procs |-> NoReq]
    /\ ret = [p \in Procs |-> NoRet]
    /\ recent_files = [p \in Procs |-> <<>>]
    /\ nfresh = 0
    /\ faults = 0
    /\ races = 0
    /\ record = env.record
    /\ ncalls = 0
    /\ prevReq = [p \in Procs |-> NoReq]
    /\ prevRet = [p \in Procs |-> NoRet]
    /\ pre = [p \in Procs |-> NoSnapshot]
    /\ overlap = [p \in Procs |-> FALSE]
    /\ written = [path \in NotebookPaths |-> NoDoc]
    /\ added = <<>>
    /\ clean = (env.record /\ env.store = Absent)

(* A fresh installation: nothing exists yet, the platform directories resolve. *)
FreshEnv(rec) ==
    [appDataDir |-> "missing", store |-> Absent, docsDir |-> "resolved",
     nbDir |-> FALSE, notebook |-> Absent, record |-> rec]

(* Inputs. *)
Names == {"x"}
Timestamps == {1000}

(* Slots are interchangeable: a request takes the lowest idle slot. *)
Lowest(p) == pc[p] = "idle" /\ \A o \in Procs : o < p => Adding(o)

(* An add_recent_file call may overlap another one within the budget. *)
MayBegin(p) == Lowest(p) /\ ((\E o \in Procs \ {p} : Adding(o)) => faults + races < MaxUpsets)

(* Paths Spec may add: the next unused path of the pool, or the path handed *)
(* out last, again.                                                         *)
FreshOrAgain == {nfresh, nfresh + 1} \cap (1..NumPaths)

Init == Started(FreshEnv(FALSE))

Next ==
    \E p \in Procs :
        \/ /\ MayBegin(p)
           /\ \E i \in FreshOrAgain, name \in Names, timestamp \in Timestamps :
                 add_recent_file_resolve(p, i, name, timestamp)
        \/ add_recent_file_load(p)
        \/ add_recent_file_write(p)
        \/ Lowest(p) /\ get_recent_files(p)
        \/ Lowest(p) /\ \E path \in NotebookPaths : read_notebook_file(p, path)
        \/ /\ Lowest(p)
           /\ \E path \in NotebookPaths, content \in Contents :
                 write_notebook_file(p, path, content)
        \/ Lowest(p) /\ get_default_save_directory(p)

Spec == Init /\ [][Next]_vars

-----------------------------------------------------------------------------
(* Environments the bridge may start on. *)

(* Lists a store may hold. *)
Sample(i) == RecentFile(PathOf(i), "old", 100 + i)
PoolList(from, n) == [k \in 1..n |-> Sample(from + k - 1)]

SampleLists ==
    { <<>>,
      <<Sample(2)>>,
      <<Sample(1), Sample(2)>>,
      PoolList(3, MaxRecent - 1),
      PoolList(3, MaxRecent),
      PoolList(3, MaxRecent - 1) \o <<Sample(1)>>,
      <<Sample(3), Sample(2)>> \o PoolList(4, MaxRecent - 2) }

(* Texts that are not a JSON array of RecentFile: the empty text, a JSON    *)
(* object, an entry without name and timestamp, a negative timestamp.       *)
Malformed ==
    { <<"raw", "">>,
      <<"obj", <<>>>>,
      <<"arr", << <<"obj", << <<"path", <<"str", "/a/x.nb">>>> >> >> >> >>,
      <<"arr", << <<"obj", << <<"path", <<"str", "/a/x.nb">>>>,
                              <<"name", <<"str", "x">>>>,
                              <<"timestamp", <<"num", -1>>>> >> >> >> >> }

SampleStores ==
    {Absent, Unreadable} \cup {Text(doc) : doc \in Malformed}
        \cup {Text(to_string(v)) : v \in SampleLists}

StoreEnvs ==
    {FreshEnv(TRUE), [FreshEnv(TRUE) EXCEPT !.appDataDir = "unresolved"]}
        \cup {[FreshEnv(TRUE) EXCEPT !.appDataDir = "present", !.store = file] :
                file \in SampleStores}

FileEnvs ==
    {[FreshEnv(TRUE) EXCEPT !.docsDir = d, !.nbDir = b, !.notebook = file] :
        d \in {"resolved", "nonutf8"}, b \in BOOLEAN,
        file \in {Absent, Unreadable, Text(<<"raw", "c0">>)}}
        \cup {[FreshEnv(TRUE) EXCEPT !.docsDir = "unresolved"]}

(* Arguments of add_recent_file in the sequential specifications. *)
SeqAdds == {<<1, "x", 1000>>, <<2, "y", 2000>>, <<1, "x2", 3000>>}

(* SpecSeq: the recent-files requests, one at a time, on any store. *)
InitSeq == \E env \in StoreEnvs : Started(env)

NextSeq ==
    \/ /\ ncalls < MaxSeqCalls
       /\ \E a \in SeqAdds : add_recent_file_resolve(1, a[1], a[2], a[3])
    \/ add_recent_file_load(1)
    \/ add_recent_file_write(1)
    \/ ncalls < MaxSeqCalls /\ get_recent_files(1)

SpecSeq == InitSeq /\ [][NextSeq]_vars

(* SpecFiles: the notebook and save-directory requests; each is one step,   *)
(* so their concurrent executions are the interleavings of these steps.     *)
InitFiles == \E env \in FileEnvs : Started(env)

NextFiles ==
    \/ /\ ncalls < MaxSeqCalls
       /\ \E path \in NotebookPaths : read_notebook_file(1, path)
    \/ /\ ncalls < MaxSeqCalls
       /\ \E path \in NotebookPaths, content \in Contents :
             write_notebook_file(1, path, content)
    \/ ncalls < MaxSeqCalls /\ get_default_save_directory(1)

SpecFiles == InitFiles /\ [][NextFiles]_vars

(* SpecFill: add_recent_file calls one after the other, each with a path    *)
(* not used before, on a fresh installation.                                *)
InitFill == Started(FreshEnv(TRUE))

NextFill ==
    \/ /\ ncalls < MaxFillCalls
       /\ \E name \in Names, timestamp \in Timestamps :
             add_recent_file_resolve(1, nfresh + 1, name, timestamp)
    \/ add_recent_file_load(1)
    \/ add_recent_file_write(1)
    \/ ncalls < MaxFillCalls + 1 /\ get_recent_files(1)

SpecFill == InitFill /\ [][NextFill]_vars

(* SpecRace: a few add_recent_file calls that may overlap, on a store that  *)
(* holds a list.                                                            *)
RaceEnvs ==
    {FreshEnv(TRUE)}
        \cup {[FreshEnv(TRUE) EXCEPT !.appDataDir = "present",
                                     !.store = Text(to_string(v))] :
                v \in SampleLists}

InitRace == \E env \in RaceEnvs : Started(env)

NextRace ==
    \E p \in Procs :
        \/ /\ ncalls < MaxRaceCalls
           /\ MayBegin(p)
           /\ \E a \in SeqAdds : add_recent_file_resolve(p, a[1], a[2], a[3])
        \/ add_recent_file_load(p)
        \/ add_recent_file_write(p)

SpecRace == InitRace /\ [][NextRace]_vars

-----------------------------------------------------------------------------
(* Vocabulary of the properties. *)

(* The file holds a list that get_recent_files would return. *)
Listed(file) == file.kind = "text" /\ Parses(file.body)
ListOf(file) == from_str(file.body).val[2]

PathsOf(v) == {v[i].path : i \in 1..Len(v)}
NoDuplicate(v) == \A i, j \in 1..Len(v) : v[i].path = v[j].path => i = j
WellFormed(v) == Len(v) <= 10 /\ NoDuplicate(v)

IsAdd(r) == r.op = "add_recent_file"
EntryOf(r) == RecentFile(r.arg[1], r.arg[2], r.arg[3])
Succeeded(res) == res.tag = "ok"

(* The last request of slot p has returned. *)
Returned(p) == pc[p] = "idle" /\ req[p] # NoReq

(* The entries of v with another path, in their order. *)
RECURSIVE Others(_, _)
Others(v, path) ==
    IF v = <<>> THEN <<>>
    ELSE IF Head(v).path = path THEN Others(Tail(v), path)
    ELSE <<Head(v)>> \o Others(Tail(v), path)

FirstN(v, n) == [i \in 1..Min(n, Len(v)) |-> v[i]]

-----------------------------------------------------------------------------
(* C1: starting from an absent store, in every state reachable by any      *)
(* sequence of bridge requests, concurrent add_recent_file calls included, *)
(* the persisted recent-file list has at most 10 entries and no two        *)
(* entries with the same path (as many distinct paths as entries).         *)
C1_ListBoundedAndDistinct ==
    store.kind = "text" =>
        LET got == from_str(store.body)
        IN Succeeded(got) =>
              LET v == got.val[2]
              IN /\ Len(v) <= 10
                 /\ Cardinality({v[i].path : i \in 1..Len(v)}) = Len(v)

(* After a race an eleventh path is in front of a full list and the oldest *)
(* path is gone.                                                           *)
C1_Witness ==
    /\ races > 0
    /\ Listed(store)
    /\ Len(ListOf(store)) = 10
    /\ ListOf(store)[1].path = PathOf(11)
    /\ PathOf(1) \notin PathsOf(ListOf(store))

(* C2: for every well-formed persisted list L and every (path, name,       *)
(* timestamp), a successful add_recent_file run alone leaves the persisted *)
(* list equal to the first 10 elements of: the new entry, followed by the  *)
(* entries of L whose path differs, in their order and unchanged.  In      *)
(* particular add(x.nb, x, 1000), add(y.nb, y, 2000), add(x.nb, x2, 3000)  *)
(* on an empty store yields [x.nb/x2/3000, y.nb/y/2000].                   *)
C2_AddResult ==
    /\ (/\ Returned(1) /\ IsAdd(req[1]) /\ Succeeded(ret[1])
        /\ Listed(pre[1].store) /\ WellFormed(ListOf(pre[1].store)))
       => /\ Listed(store)
          /\ ListOf(store) =
                FirstN(<<EntryOf(req[1])>>
                           \o Others(ListOf(pre[1].store), req[1].arg[1]), 10)
    /\ (/\ Returned(1) /\ clean
        /\ added = << RecentFile("/a/x.nb", "x", 1000),
                      RecentFile("/a/y.nb", "y", 2000),
                      RecentFile("/a/x.nb", "x2", 3000) >>)
       => /\ Listed(store)
          /\ ListOf(store) = << RecentFile("/a/x.nb", "x2", 3000),
                                RecentFile("/a/y.nb", "y", 2000) >>

(* A full list that holds the path in its last place: the entry moves to   *)
(* the front with the new name and timestamp.                              *)
C2_Witness ==
    /\ Returned(1) /\ IsAdd(req[1]) /\ Succeeded(ret[1])
    /\ Listed(pre[1].store)
    /\ Len(ListOf(pre[1].store)) = 10
    /\ ListOf(pre[1].store)[10].path = req[1].arg[1]
    /\ ListOf(pre[1].store)[10] # EntryOf(req[1])
    /\ Listed(store)
    /\ ListOf(store)[1] = EntryOf(req[1])

(* The scenario of C2 has run. *)
C2_ScenarioReached ==
    /\ Returned(1) /\ clean
    /\ added = << RecentFile("/a/x.nb", "x", 1000),
                  RecentFile("/a/y.nb", "y", 2000),
                  RecentFile("/a/x.nb", "x2", 3000) >>

(* A full list without the path: the new entry pushes the last one out. *)
C2_TruncationReached ==
    /\ Returned(1) /\ IsAdd(req[1]) /\ Succeeded(ret[1])
    /\ Listed(pre[1].store)
    /\ Len(ListOf(pre[1].store)) = 10
    /\ req[1].arg[1] \notin PathsOf(ListOf(pre[1].store))

(* C4: calling add_recent_file for the same path P twice in succession     *)
(* leaves exactly one entry for P, at the front, with the second call's    *)
(* name and timestamp; the other entries are those after the first call,   *)
(* in the same order, and the list does not grow on the second call.       *)
C4_TwiceInSuccession ==
    (/\ Returned(1)
     /\ IsAdd(req[1]) /\ Succeeded(ret[1])
     /\ IsAdd(prevReq[1]) /\ Succeeded(prevRet[1])
     /\ req[1].arg[1] = prevReq[1].arg[1])
    => /\ Listed(pre[1].store) /\ Listed(store)
       /\ LET first == ListOf(pre[1].store)
              second == ListOf(store)
          IN /\ Cardinality({i \in 1..Len(second) :
                                second[i].path = req[1].arg[1]}) = 1
             /\ second[1] = EntryOf(req[1])
             /\ Len(second) = Len(first)
             /\ \A i \in 2..Len(second) : second[i] = first[i]

(* The second call changed name and timestamp, and other entries follow. *)
C4_Witness ==
    /\ Returned(1)
    /\ IsAdd(req[1]) /\ Succeeded(ret[1])
    /\ IsAdd(prevReq[1]) /\ Succeeded(prevRet[1])
    /\ req[1].arg[1] = prevReq[1].arg[1]
    /\ req[1].arg[2] # prevReq[1].arg[2]
    /\ Listed(store)
    /\ Len(ListOf(store)) = 10

(* C5: get_recent_files on a store file that does not exist (its location  *)
(* resolving) returns success with an empty sequence, and right after a    *)
(* successful add_recent_file it returns exactly the list that call        *)
(* persisted.                                                              *)
C5_GetAfterNothingOrAdd ==
    /\ (/\ Returned(1) /\ req[1].op = "get_recent_files"
        /\ appDataDir # "unresolved" /\ pre[1].store.kind = "absent")
       => ret[1] = Ok(<<"list", <<>>>>)
    /\ (/\ Returned(1) /\ req[1].op = "get_recent_files"
        /\ IsAdd(prevReq[1]) /\ Succeeded(prevRet[1]))
       => ret[1] = Ok(<<"list", recent_files[1]>>)

(* get_recent_files returned what the add before it had persisted: the new *)
(* entry in front of older ones.                                           *)
C5_Witness ==
    /\ Returned(1) /\ req[1].op = "get_recent_files"
    /\ IsAdd(prevReq[1]) /\ Succeeded(prevRet[1])
    /\ Succeeded(ret[1])
    /\ Len(ret[1].val[2]) >= 2
    /\ ret[1].val[2][1] = EntryOf(prevReq[1])

(* get_recent_files found no store and returned the empty sequence. *)
C5_EmptyReached ==
    /\ Returned(1) /\ req[1].op = "get_recent_files"
    /\ pre[1].store.kind = "absent"
    /\ ret[1] = Ok(<<"list", <<>>>>)

(* C8: when the store exists but does not parse as the expected JSON       *)
(* array, get_recent_files returns a parse error and leaves the store      *)
(* unchanged, whereas add_recent_file does not surface the parse failure:  *)
(* it takes the list as empty and, its write succeeding, returns success   *)
(* and leaves the well-formed list of exactly the one new entry.           *)
Unparsable(file) == file.kind = "text" /\ ~Parses(file.body)

C8_ParseFailure ==
    /\ (/\ Returned(1) /\ req[1].op = "get_recent_files" /\ Unparsable(pre[1].store))
       => /\ ret[1] = Err("Failed to parse recent files")
          /\ store = pre[1].store
    /\ (/\ Returned(1) /\ IsAdd(req[1]) /\ Unparsable(pre[1].store))
       => /\ ~Succeeded(ret[1]) => ret[1] = Err("Failed to write recent files")
          /\ Succeeded(ret[1]) =>
                /\ Listed(store)
                /\ ListOf(store) = <<EntryOf(req[1])>>

(* On the same unparsable store get_recent_files failed and then           *)
(* add_recent_file succeeded.                                              *)
C8_Witness ==
    /\ Returned(1) /\ IsAdd(req[1]) /\ Unparsable(pre[1].store)
    /\ Succeeded(ret[1])
    /\ prevReq[1].op = "get_recent_files"
    /\ prevRet[1] = Err("Failed to parse recent files")
    /\ ListOf(store) = <<EntryOf(req[1])>>

(* C10: whenever add_recent_file returns an error before its final write   *)
(* (the application data directory does not resolve, creating it fails,    *)
(* or the store file exists and reading it fails), the persisted list is   *)
(* left as it was; a store file that exists and cannot be read is an       *)
(* error, not an empty list.                                               *)
EarlyErrors ==
    { Err("Failed to get app data directory"),
      Err("Failed to create app directory"),
      Err("Failed to read recent files") }

C10_EarlyErrorKeepsStore ==
    /\ (Returned(1) /\ IsAdd(req[1]) /\ ret[1] \in EarlyErrors)
       => store = pre[1].store
    /\ (Returned(1) /\ IsAdd(req[1]) /\ pre[1].store.kind = "bytes")
       => /\ ret[1] = Err("Failed to read recent files")
          /\ store = pre[1].store

(* add_recent_file met a store it could not read. *)
C10_Witness ==
    /\ Returned(1) /\ IsAdd(req[1])
    /\ pre[1].store.kind = "bytes"
    /\ ret[1] = Err("Failed to read recent files")

(* Each of the three early errors has been returned. *)
C10_UnresolvedReached ==
    Returned(1) /\ IsAdd(req[1]) /\ ret[1] = Err("Failed to get app data directory")

C10_CreateFailedReached ==
    Returned(1) /\ IsAdd(req[1]) /\ ret[1] = Err("Failed to create app directory")

(* C3: after n sequential successful add_recent_file calls with pairwise   *)
(* distinct paths on an initially absent store, get_recent_files returns   *)
(* exactly min(n, 10) entries, most recently added first, whose paths are  *)
(* the last min(n, 10) paths added; for n = 15 it returns 10 entries and   *)
(* the 5 oldest paths are gone.                                            *)
LastAdded(v, n) ==
    /\ Len(v) = Min(n, 10)
    /\ \A i \in 1..Len(v) : v[i].path = added[n - i + 1].path

C3_FillKeepsLastTen ==
    (clean /\ pc[1] = "idle" /\ NoDuplicate(added))
    => /\ added # <<>> => Listed(store) /\ LastAdded(ListOf(store), Len(added))
       /\ (Returned(1) /\ req[1].op = "get_recent_files")
          => /\ Succeeded(ret[1])
             /\ LastAdded(ret[1].val[2], Len(added))

(* Fifteen paths were added and get_recent_files returned ten entries,     *)
(* none of them one of the five oldest paths.                              *)
C3_Witness ==
    /\ clean /\ Returned(1) /\ req[1].op = "get_recent_files"
    /\ Len(added) = 15
    /\ Succeeded(ret[1])
    /\ Len(ret[1].val[2]) = 10
    /\ ret[1].val[2][1].path = added[15].path
    /\ \A i \in 1..5 : added[i].path \notin PathsOf(ret[1].val[2])

(* C6: a successful write_notebook_file(P, C) followed by                  *)
(* read_notebook_file(P), with no other write to P in between, returns     *)
(* exactly C; the write replaces the previous content of P in full and     *)
(* creates P when it did not exist.                                        *)
C6_WriteThenRead ==
    \A path \in NotebookPaths :
        /\ (/\ Returned(1) /\ req[1] = [op |-> "read_notebook_file", arg |-> <<path>>]
            /\ written[path] # NoDoc)
           => ret[1] = Ok(written[path])
        /\ (/\ Returned(1) /\ req[1].op = "write_notebook_file"
            /\ req[1].arg[1] = path /\ Succeeded(ret[1]))
           => files[path] = Text(req[1].arg[2])

(* A read returned the text of the write before it, the third request of   *)
(* the behaviour.                                                          *)
C6_Witness ==
    \E path \in NotebookPaths :
        /\ Returned(1) /\ req[1] = [op |-> "read_notebook_file", arg |-> <<path>>]
        /\ prevReq[1].op = "write_notebook_file" /\ Succeeded(prevRet[1])
        /\ ret[1] = Ok(prevReq[1].arg[2])
        /\ pre[1].files[path] = Text(prevReq[1].arg[2])
        /\ ncalls = 3

(* A write created the file. *)
C6_CreateReached ==
    \E path \in NotebookPaths :
        /\ Returned(1) /\ req[1].op = "write_notebook_file" /\ Succeeded(ret[1])
        /\ pre[1].files[path] = Absent
        /\ files[path] = Text(req[1].arg[2])

(* A write replaced another text. *)
C6_ReplaceReached ==
    \E path \in NotebookPaths :
        /\ Returned(1) /\ req[1].op = "write_notebook_file" /\ Succeeded(ret[1])
        /\ pre[1].files[path].kind = "text"
        /\ pre[1].files[path] # Text(req[1].arg[2])
        /\ files[path] = Text(req[1].arg[2])

(* C7: when the documents directory resolves, a successful                 *)
(* get_default_save_directory where <documents>/Tangent Notebooks is       *)
(* missing creates that directory and returns its path; a second call      *)
(* changes nothing in the filesystem and returns the same path.            *)
IsGetDir(r) == r.op = "get_default_save_directory"

C7_DefaultDirectory ==
    /\ (Returned(1) /\ IsGetDir(req[1]) /\ docsDir = "resolved" /\ ~pre[1].nbDir)
       => IF Succeeded(ret[1])
          THEN /\ nbDir
               /\ ret[1] = Ok(<<"str", "<documents>/Tangent Notebooks">>)
          ELSE /\ ret[1] = Err("Failed to create notebooks directory")
               /\ Snapshot = pre[1]
    /\ (/\ Returned(1) /\ IsGetDir(req[1])
        /\ IsGetDir(prevReq[1]) /\ Succeeded(prevRet[1]))
       => /\ ret[1] = prevRet[1]
          /\ Snapshot = pre[1]

(* The second of two calls in a row returned the path of the first. *)
C7_Witness ==
    /\ Returned(1) /\ IsGetDir(req[1])
    /\ IsGetDir(prevReq[1]) /\ Succeeded(prevRet[1])
    /\ Succeeded(ret[1])
    /\ ncalls = 2

(* A call found the directory missing and created it. *)
C7_CreateReached ==
    /\ Returned(1) /\ IsGetDir(req[1]) /\ ~pre[1].nbDir /\ Succeeded(ret[1])
    /\ nbDir

(* C9: two concurrent add_recent_file calls with distinct paths load and   *)
(* write the store as separate steps without mutual exclusion, so both can *)
(* return success while the final list holds only one of the two paths;    *)
(* when the two calls do not overlap, both paths are in the final list.    *)
TwoCallsDone == ncalls = 2 /\ \A p \in Procs : pc[p] = "idle"

C9_NoOverlapKeepsBoth ==
    /\ (/\ TwoCallsDone
        /\ IsAdd(req[1]) /\ Succeeded(ret[1])
        /\ IsAdd(prevReq[1]) /\ Succeeded(prevRet[1])
        /\ req[1].arg[1] # prevReq[1].arg[1])
       => /\ ~overlap[1]
          /\ Listed(store)
          /\ {req[1].arg[1], prevReq[1].arg[1]} \subseteq PathsOf(ListOf(store))
    /\ (/\ TwoCallsDone
        /\ IsAdd(req[1]) /\ Succeeded(ret[1])
        /\ IsAdd(req[2]) /\ Succeeded(ret[2]))
       => /\ overlap[1] /\ overlap[2]
          /\ Listed(store)
          /\ ListOf(store)[1] \in {EntryOf(req[1]), EntryOf(req[2])}

(* Both overlapping calls succeeded and the path of one is lost. *)
C9_Witness ==
    /\ TwoCallsDone
    /\ IsAdd(req[1]) /\ Succeeded(ret[1])
    /\ IsAdd(req[2]) /\ Succeeded(ret[2])
    /\ req[1].arg[1] # req[2].arg[1]
    /\ Listed(store)
    /\ Cardinality({req[1].arg[1], req[2].arg[1]} \cap PathsOf(ListOf(store))) = 1

(* Both overlapping calls succeeded and both paths are kept: the second    *)
(* loaded after the first had written.                                     *)
C9_OverlapKeepsBothReached ==
    /\ TwoCallsDone
    /\ IsAdd(req[1]) /\ Succeeded(ret[1])
    /\ IsAdd(req[2]) /\ Succeeded(ret[2])
    /\ req[1].arg[1] # req[2].arg[1]
    /\ Listed(store)
    /\ {req[1].arg[1], req[2].arg[1]} \subseteq PathsOf(ListOf(store))

====
